---------------------------- MODULE Spec2Model ----------------------------
(***************************************************************************)
(* Model of app.py: a Flask application that reads temperature sensors     *)
(* from Home Assistant, keeps a bounded in-memory history per entity and   *)
(* serves "/", "/api/sensors" and "/dashboard".                            *)
(*                                                                         *)
(* Python values are records [t, n, s, d]: t is the type tag, n the number *)
(* (floats in thousandths of a degree), s the characters of a str, d the   *)
(* items of a dict whose values are strs.                                  *)
(***************************************************************************)
EXTENDS Integers, Sequences, FiniteSets, Bags, TLC

----------------------------------------------------------------------------
(* Bounds of the model *)

\* requests accepted over the life of the process
MaxRequests == 3
\* largest HISTORY_POINTS the configuration may set
MaxHistoryPoints == 2
\* seconds the clock may advance
MaxTime == 0
\* largest temperature, in thousandths of a degree, the converter is given
\* (besides the named ones)
MaxMilli == 1000

----------------------------------------------------------------------------
(* Python values *)

EmptyDict == [k \in {} |-> <<>>]

None == [t |-> "None", n |-> 0, s |-> <<>>, d |-> EmptyDict]

Float(x) == [t |-> "float", n |-> x, s |-> <<>>, d |-> EmptyDict]

\* float('nan'): a float that is not a number
NaN == [t |-> "float", n |-> 0, s |-> <<"n", "a", "n">>, d |-> EmptyDict]

Str(cs) == [t |-> "str", n |-> 0, s |-> cs, d |-> EmptyDict]

\* a str that is never parsed, written as one chunk
Text(x) == Str(<<x>>)

Bool(b) == [t |-> "bool", n |-> IF b THEN 1 ELSE 0, s |-> <<>>, d |-> EmptyDict]

List(len) == [t |-> "list", n |-> len, s |-> <<>>, d |-> EmptyDict]

Dict(items) == [t |-> "dict", n |-> 0, s |-> <<>>, d |-> items]

\* Python truthiness, as used by `x or {}` and `if not var_value`
Truthy(v) ==
    CASE v.t = "None" -> FALSE
      [] v.t = "float" -> v.n # 0 \/ v.s # <<>>
      [] v.t = "str" -> v.s # <<>>
      [] v.t = "bool" -> v.n = 1
      [] v.t = "list" -> v.n > 0
      [] v.t = "dict" -> DOMAIN v.d # {}
      [] OTHER -> TRUE

----------------------------------------------------------------------------
(* float(x) *)

Digits == <<"0", "1", "2", "3", "4", "5", "6", "7", "8", "9">>

IsDigit(c) == \E i \in 1..10 : Digits[i] = c

DigitVal(c) == (CHOOSE i \in 1..10 : Digits[i] = c) - 1

IsSpace(c) == c \in {" ", "\t", "\n"}

RECURSIVE LStrip(_)
LStrip(cs) == IF cs # <<>> /\ IsSpace(Head(cs)) THEN LStrip(Tail(cs)) ELSE cs

RECURSIVE RStrip(_)
RStrip(cs) ==
    IF cs # <<>> /\ IsSpace(cs[Len(cs)])
    THEN RStrip(SubSeq(cs, 1, Len(cs) - 1))
    ELSE cs

Lower(c) ==
    CASE c = "N" -> "n" [] c = "A" -> "a" [] c = "I" -> "i" [] c = "F" -> "f"
      [] OTHER -> c

\* value of a run of digits, most significant first
RECURSIVE DigitsVal(_)
DigitsVal(cs) ==
    IF cs = <<>> THEN 0
    ELSE 10 * DigitsVal(SubSeq(cs, 1, Len(cs) - 1)) + DigitVal(cs[Len(cs)])

AllDigits(cs) == \A i \in 1..Len(cs) : IsDigit(cs[i])

\* thousandths denoted by the fraction digits (at most three are kept)
FracMilli(cs) ==
    LET p == SubSeq(cs \o <<"0", "0", "0">>, 1, 3)
    IN DigitsVal(p)

\* an unsigned decimal literal "ddd", "ddd.", ".ddd" or "ddd.ddd"
DotAt(cs) == {i \in 1..Len(cs) : cs[i] = "."}

IsDecimal(cs) ==
    IF DotAt(cs) = {}
    THEN cs # <<>> /\ AllDigits(cs)
    ELSE LET i == CHOOSE j \in DotAt(cs) : TRUE
             ip == SubSeq(cs, 1, i - 1)
             fp == SubSeq(cs, i + 1, Len(cs))
         IN /\ Cardinality(DotAt(cs)) = 1
            /\ AllDigits(ip) /\ AllDigits(fp)
            /\ Len(ip) + Len(fp) > 0

DecimalMilli(cs) ==
    IF DotAt(cs) = {}
    THEN 1000 * DigitsVal(cs)
    ELSE LET i == CHOOSE j \in DotAt(cs) : TRUE
         IN 1000 * DigitsVal(SubSeq(cs, 1, i - 1))
              + FracMilli(SubSeq(cs, i + 1, Len(cs)))

\* float(str): surrounding whitespace is stripped, a sign is allowed, "nan"
\* is accepted in any letter case; anything else raises ValueError
FloatOfStr(cs) ==
    LET st == RStrip(LStrip(cs))
        signed == st # <<>> /\ Head(st) \in {"+", "-"}
        body == IF signed THEN Tail(st) ELSE st
        low == [i \in 1..Len(body) |-> Lower(body[i])]
    IN IF low = <<"n", "a", "n">> THEN [exc |-> "None", val |-> NaN]
       ELSE IF IsDecimal(body)
       THEN [exc |-> "None",
             val |-> Float(IF signed /\ Head(st) = "-"
                           THEN 0 - DecimalMilli(body)
                           ELSE DecimalMilli(body))]
       ELSE [exc |-> "ValueError", val |-> None]

\* float(x) for any Python value
PyFloat(v) ==
    CASE v.t = "float" -> [exc |-> "None", val |-> v]
      [] v.t = "bool" -> [exc |-> "None", val |-> Float(1000 * v.n)]
      [] v.t = "str" -> FloatOfStr(v.s)
      [] OTHER -> [exc |-> "TypeError", val |-> None]

----------------------------------------------------------------------------
VARIABLES
    \* module-level configuration, read once from the environment
    USE_DUMMY_DATA, HOME_ASSISTANT_URL, ENTITY_ID, API_TOKEN, ENTITIES,
    HISTORY_POINTS,
    \* "boot" while the module is being imported, then "serving" or "exited"
    proc,
    \* _history: entity id -> reference to a deque; deques: the deque objects
    _history, deques,
    \* the last value int(time()) returned
    now,
    \* the requests being handled, one per busy worker thread: the position
    \* in the handler and the handler's locals (a bag: threads have no name)
    th,
    \* the response the last step sent to a client, NoResponse if it sent none
    response,
    \* number of requests accepted so far
    nreq,
    \* for every entity, every point ever appended to one of its deques
    recorded,
    \* one call of a fetcher on one upstream response
    probe,
    \* every entity's buffer as it was when the request being handled began
    \* (kept by the single-threaded server only)
    before

config == <<USE_DUMMY_DATA, HOME_ASSISTANT_URL, ENTITY_ID, API_TOKEN, ENTITIES,
            HISTORY_POINTS>>

store == <<_history, deques, now, recorded>>

vars == <<config, proc, store, th, response, nreq, probe, before>>

\* the threads of the development server that can be busy at the same
\* time (app.run serves each request in its own thread)
Threads == {"t1", "t2"}

EntityIds == {"sensor.one", "sensor.two"}

----------------------------------------------------------------------------
(* The upstream: what requests.get(url, headers, timeout=10) can do *)

\* requests.exceptions.RequestException and its subclasses
RequestExceptions == {"Timeout", "ConnectionError", "SSLError"}

\* requests.get raises
Raises(e) == [exc |-> e, status_code |-> 0, json |-> "ValueError",
              value |-> None, obj |-> [k \in {} |-> None]]

\* a response whose body is not JSON: response.json() raises ValueError
NotJson(code) == [exc |-> "None", status_code |-> code, json |-> "ValueError",
                  value |-> None, obj |-> [k \in {} |-> None]]

\* a response whose body is a JSON value that is not an object
JsonValue(code, v) == [exc |-> "None", status_code |-> code, json |-> "value",
                       value |-> v, obj |-> [k \in {} |-> None]]

\* a response whose body is a JSON object
JsonObject(code, o) == [exc |-> "None", status_code |-> code, json |-> "object",
                        value |-> None, obj |-> o]

\* dict.get(key, default) on the parsed JSON object
Get(o, key, default) == IF key \in DOMAIN o THEN o[key] ELSE default

\* dict.get(key, default) on an attributes dict
AttrGet(attrs, key, default) ==
    IF key \in DOMAIN attrs.d THEN Str(attrs.d[key]) ELSE default

\* what the server can get from the upstream when it asks for one entity
Upstream ==
    { Raises("Timeout"),
      NotJson(200),
      JsonValue(200, List(0)),
      JsonObject(500, [k \in {"state", "last_updated"} |->
                         IF k = "state" THEN Str(<<"2", "1", ".", "5">>)
                         ELSE Text("2024-01-01T00:00:00Z")]),
      JsonObject(200, [k \in {"state", "last_updated", "attributes"} |->
                         CASE k = "state" -> Str(<<"2", "1", ".", "5">>)
                           [] k = "last_updated" -> Text("2024-01-01T00:00:00Z")
                           [] OTHER -> Dict([a \in {"friendly_name"} |-> <<"Name">>])]),
      JsonObject(200, [k \in {"state", "attributes"} |->
                         IF k = "state" THEN Str(<<"3", "0">>)
                         ELSE Text("none")]) }

----------------------------------------------------------------------------
(* The fetchers *)

\* what a fetcher returns, or the exception it lets through
Reading(exc, temperature, last_updated, attributes) ==
    [exc |-> exc, temperature |-> temperature, last_updated |-> last_updated,
     attributes |-> attributes]

\* return None, None, {}
Absent == Reading("None", None, None, Dict(EmptyDict))

\* the value returned in dummy mode
DummyReading(entity_id) ==
    Reading("None", Float(25000), Text("N/A"),
            Dict([k \in {"friendly_name", "unit_of_measurement", "icon"} |->
                    CASE k = "friendly_name" -> <<entity_id>>
                      [] k = "unit_of_measurement" -> <<"°C">>
                      [] OTHER -> <<"mdi:thermometer">>]))

\* a fetcher without its except clause
CaughtNothing(e) == FALSE

\* except requests.exceptions.RequestException
Caught(e) == e \in RequestExceptions

\* except (ValueError, TypeError) around float(state_value)
CaughtByFloat(e) == e \in {"ValueError", "TypeError"}

\* state_value -> temperature
Temperature(state_value) ==
    IF state_value # None
    THEN LET f == PyFloat(state_value)
         IN IF f.exc = "None" THEN [exc |-> "None", val |-> f.val]
            ELSE IF CaughtByFloat(f.exc) THEN [exc |-> "None", val |-> None]
            ELSE [exc |-> f.exc, val |-> None]
    ELSE [exc |-> "None", val |-> None]

\* data.get("attributes", {}) or {}
Attributes(data) ==
    LET a == Get(data, "attributes", Dict(EmptyDict))
    IN IF Truthy(a) THEN a ELSE Dict(EmptyDict)

\* a fetcher that parses the body of every response that is no error
StatusBelow400(code) == code < 400

\* the status codes the fetchers parse the body of
StatusOk(code) == code = 200

\* the body of the fetchers' `if response.status_code == 200:` branch;
\* with_attrs tells get_sensor_reading from get_backyard_temperature
ParseBody(r, with_attrs) ==
    IF r.json = "ValueError" THEN Absent
    ELSE IF r.json = "value"
    THEN \* data.get on a list, a str, a number or None
         Reading("AttributeError", None, None, Dict(EmptyDict))
    ELSE LET data == r.obj
             temperature == Temperature(Get(data, "state", None))
             last_updated == Get(data, "last_updated", None)
         IN IF temperature.exc # "None"
            THEN Reading(temperature.exc, None, None, Dict(EmptyDict))
            ELSE Reading("None", temperature.val, last_updated,
                         IF with_attrs THEN Attributes(data)
                         ELSE Dict(EmptyDict))

\* the try block of both fetchers, given what requests.get did
Fetch(r, with_attrs) ==
    IF r.exc # "None"
    THEN IF Caught(r.exc) THEN Absent
         ELSE Reading(r.exc, None, None, Dict(EmptyDict))
    ELSE IF StatusOk(r.status_code)
    THEN LET out == ParseBody(r, with_attrs)
         IN IF out.exc # "None" /\ Caught(out.exc) THEN Absent ELSE out
    ELSE Absent

\* the calls of requests.get one call of a fetcher makes, by the entity in
\* their url: none in dummy mode, else one
Requests(entity_id) == IF USE_DUMMY_DATA THEN <<>> ELSE <<entity_id>>

\* f"{ENTITY_ID}" in the url get_backyard_temperature builds
Formatted(v) == IF v.t = "str" /\ v.s # <<>> THEN v.s[1] ELSE v.t

\* a fetcher that does not look at the dummy flag
get_sensor_reading_live(entity_id, r) == Fetch(r, TRUE)

\* get_sensor_reading(entity_id), r being what the upstream does when asked
get_sensor_reading(entity_id, r) ==
    IF USE_DUMMY_DATA THEN DummyReading(entity_id) ELSE Fetch(r, TRUE)

\* get_backyard_temperature(): the same for ENTITY_ID, without attributes
get_backyard_temperature(r) ==
    IF USE_DUMMY_DATA
    THEN Reading("None", Float(25000), Text("N/A"), Dict(EmptyDict))
    ELSE Fetch(r, FALSE)

----------------------------------------------------------------------------
(* Python floats: IEEE 754 doubles, as sign, 53-bit significand and         *)
(* exponent. A natural number too large for an integer of the model is a   *)
(* sequence of binary digits, most significant first; the operators on    *)
(* them split their argument in halves.                                    *)

Zeros(k) == [i \in 1..k |-> 0]

\* the binary digits of a natural number (none for 0)
RECURSIVE BitsOf(_)
BitsOf(n) == IF n = 0 THEN <<>> ELSE Append(BitsOf(n \div 2), n % 2)

\* the natural number a short sequence of binary digits denotes
RECURSIVE NatOf(_)
NatOf(b) ==
    IF b = <<>> THEN 0
    ELSE 2 * NatOf(SubSeq(b, 1, Len(b) - 1)) + b[Len(b)]

AnyOne(b) == \E i \in 1..Len(b) : b[i] = 1

\* without leading zeros
Strip(b) ==
    IF AnyOne(b)
    THEN SubSeq(b, CHOOSE i \in 1..Len(b) :
                      b[i] = 1 /\ \A j \in 1..(i - 1) : b[j] = 0, Len(b))
    ELSE <<>>

\* a + b + carry for a and b of the same length: the carry out, then the sum
RECURSIVE AddBits(_, _, _)
AddBits(a, b, carry) ==
    IF a = <<>> THEN <<carry>>
    ELSE IF Len(a) = 1
    THEN <<(a[1] + b[1] + carry) \div 2, (a[1] + b[1] + carry) % 2>>
    ELSE LET n == Len(a)
             h == n \div 2
             lo == AddBits(SubSeq(a, h + 1, n), SubSeq(b, h + 1, n), carry)
         IN IF lo[1] = 1
            THEN AddBits(SubSeq(a, 1, h), SubSeq(b, 1, h), 1) \o Tail(lo)
            ELSE AddBits(SubSeq(a, 1, h), SubSeq(b, 1, h), 0) \o Tail(lo)

\* a - b - borrow for a and b of the same length: the borrow out, then the
\* difference
RECURSIVE SubBits(_, _, _)
SubBits(a, b, borrow) ==
    IF a = <<>> THEN <<borrow>>
    ELSE IF Len(a) = 1
    THEN IF a[1] - b[1] - borrow < 0 THEN <<1, a[1] - b[1] - borrow + 2>>
         ELSE <<0, a[1] - b[1] - borrow>>
    ELSE LET n == Len(a)
             h == n \div 2
             lo == SubBits(SubSeq(a, h + 1, n), SubSeq(b, h + 1, n), borrow)
         IN IF lo[1] = 1
            THEN SubBits(SubSeq(a, 1, h), SubSeq(b, 1, h), 1) \o Tail(lo)
            ELSE SubBits(SubSeq(a, 1, h), SubSeq(b, 1, h), 0) \o Tail(lo)

\* a < b for a and b of the same length
LessBits(a, b) ==
    \E i \in 1..Len(a) : a[i] < b[i] /\ \A j \in 1..(i - 1) : a[j] = b[j]

\* a and b made as long as the longer one
PadTo(a, n) == Zeros(n - Len(a)) \o a

\* a + b
Sum(a, b) ==
    LET n == IF Len(a) > Len(b) THEN Len(a) ELSE Len(b)
    IN Strip(AddBits(PadTo(a, n), PadTo(b, n), 0))

\* a - b, for a >= b
Difference(a, b) ==
    LET n == IF Len(a) > Len(b) THEN Len(a) ELSE Len(b)
    IN Strip(Tail(SubBits(PadTo(a, n), PadTo(b, n), 0)))

\* b * k for a small k given by its binary digits
RECURSIVE Times(_, _)
Times(b, k) ==
    IF k = <<>> THEN <<>>
    ELSE LET rest == Times(b, SubSeq(k, 1, Len(k) - 1)) \o <<0>>
         IN IF k[Len(k)] = 1 THEN Sum(rest, b) ELSE Strip(rest)

\* long division of r * 2^Len(b) + b by a small d, r < d: the quotient (as
\* long as b) and the remainder
RECURSIVE DivSmall(_, _, _)
DivSmall(b, d, r) ==
    IF b = <<>> THEN [q |-> <<>>, r |-> r]
    ELSE IF Len(b) = 1
    THEN IF 2 * r + b[1] >= d THEN [q |-> <<1>>, r |-> 2 * r + b[1] - d]
         ELSE [q |-> <<0>>, r |-> 2 * r + b[1]]
    ELSE LET n == Len(b)
             h == n \div 2
             hi == DivSmall(SubSeq(b, 1, h), d, r)
             lo == DivSmall(SubSeq(b, h + 1, n), d, hi.r)
         IN [q |-> hi.q \o lo.q, r |-> lo.r]

\* a double: (-1)^neg * m * 2^e, m of 53 digits, the first one 1
Double(neg, m, e) == [neg |-> neg, m |-> m, e |-> e]

Zero == Double(FALSE, <<>>, 0)

\* the double nearest to b * 2^e (and a little more, if sticky), ties to even
RoundToDouble(neg, b, sticky, e) ==
    IF b = <<>> THEN Zero
    ELSE IF Len(b) <= 53
    THEN Double(neg, b \o Zeros(53 - Len(b)), e - (53 - Len(b)))
    ELSE LET keep == SubSeq(b, 1, 53)
             rest == SubSeq(b, 55, Len(b))
             up == b[54] = 1 /\ (sticky \/ AnyOne(rest) \/ keep[53] = 1)
             m == IF up THEN Sum(keep, <<1>>) ELSE keep
         IN Double(neg, SubSeq(m, 1, 53), e + Len(b) - 53 + Len(m) - 53)

\* the double nearest to b * 2^e / d, for a small d
DoubleOfRatio(neg, b, d, e) ==
    LET pad == 56 + Len(BitsOf(d)) - Len(b)
        qr == DivSmall(b \o Zeros(pad), d, 0)
    IN RoundToDouble(neg, Strip(qr.q), qr.r # 0, e - pad)

\* the double a decimal with three fraction digits is read as
DoubleOfMilli(n) ==
    DoubleOfRatio(n < 0, BitsOf(IF n < 0 THEN 0 - n ELSE n), 1000, 0)

\* x * k for a small int k
DoubleTimes(x, k) == RoundToDouble(x.neg, Times(x.m, BitsOf(k)), FALSE, x.e)

\* x / d for a small int d
DoubleOver(x, d) ==
    IF x.m = <<>> THEN Zero ELSE DoubleOfRatio(x.neg, x.m, d, x.e)

\* x + k for a small positive int k
DoublePlus(x, k) ==
    IF x.m = <<>> THEN RoundToDouble(FALSE, BitsOf(k), FALSE, 0)
    ELSE LET e == IF x.e < 0 THEN x.e ELSE 0
             a == x.m \o Zeros(x.e - e)
             b == BitsOf(k) \o Zeros(0 - e)
         IN IF ~x.neg THEN RoundToDouble(FALSE, Sum(a, b), FALSE, e)
            ELSE IF Len(a) < Len(b) \/ (Len(a) = Len(b) /\ LessBits(a, b))
            THEN RoundToDouble(FALSE, Difference(b, a), FALSE, e)
            ELSE RoundToDouble(TRUE, Difference(a, b), FALSE, e)

\* the natural number nearest to whole + frac / 2^Len(frac), ties to even
NearestEven(whole, frac) ==
    IF /\ frac # <<>>
       /\ frac[1] = 1
       /\ (AnyOne(Tail(frac)) \/ whole % 2 = 1)
    THEN whole + 1
    ELSE whole

\* the natural number nearest to p / 2^k, ties to even
NearestToRatio(p, k) ==
    NearestEven(NatOf(SubSeq(p, 1, Len(p) - k)),
                IF Len(p) < k THEN Zeros(k - Len(p)) \o p
                ELSE SubSeq(p, Len(p) - k + 1, Len(p)))

\* -r for a negative value, else r
Signed(neg, r) == IF neg THEN 0 - r ELSE r

\* round(x, 2) in hundredths: the multiple of 0.01 nearest to the exact
\* value of the double, ties to even
RoundHundredths(x) ==
    IF x.m = <<>> THEN 0
    ELSE Signed(x.neg,
                NearestToRatio(Times(x.m, BitsOf(100))
                                 \o Zeros(IF x.e > 0 THEN x.e ELSE 0),
                               IF x.e < 0 THEN 0 - x.e ELSE 0))

\* round((celsius * 9/5) + 32, 2) as Python computes it on doubles, celsius
\* and the result in thousandths (a float of the model is the double nearest
\* to its thousandths)
Fahrenheit(n) ==
    10 * RoundHundredths(
            DoublePlus(DoubleOver(DoubleTimes(DoubleOfMilli(n), 9), 5), 32))

\* celsius * 9/5 + 32 lies exactly halfway between two hundredths
\* (celsius in thousandths)
Halfway(n) == (n * 18 + 320000) % 100 = 50

\* the hundredth nearest to celsius * 9/5 + 32, for a value not halfway
\* (in thousandths)
NearestHundredth(n) ==
    LET x == n * 18 + 320000
    IN 10 * (IF x % 100 < 50 THEN x \div 100 ELSE x \div 100 + 1)

\* celsius_to_fahrenheit: round((celsius * 9/5) + 32, 2); NaN stays NaN.
\* The doubles are off the exact celsius * 9/5 + 32 by less than 0.0000001
\* and a value not halfway is at least 0.0001 away from halfway, so only a
\* value halfway needs the doubles to tell where it is rounded to.
celsius_to_fahrenheit(celsius) ==
    IF celsius.s # <<>> THEN NaN
    ELSE IF Halfway(celsius.n) THEN Float(Fahrenheit(celsius.n))
    ELSE Float(NearestHundredth(celsius.n))

----------------------------------------------------------------------------
(* Startup *)

\* a check that forgets the token
StartupOkWithoutToken ==
    \/ USE_DUMMY_DATA
    \/ /\ ENTITIES # <<>>
       /\ Truthy(HOME_ASSISTANT_URL)
    \/ /\ ENTITIES = <<>>
       /\ Truthy(HOME_ASSISTANT_URL) /\ Truthy(ENTITY_ID)

\* the module-level check: sys.exit(1) unless every required variable is set
StartupOk ==
    \/ USE_DUMMY_DATA
    \/ /\ ENTITIES # <<>>
       /\ Truthy(HOME_ASSISTANT_URL) /\ Truthy(API_TOKEN)
    \/ /\ ENTITIES = <<>>
       /\ Truthy(HOME_ASSISTANT_URL) /\ Truthy(ENTITY_ID) /\ Truthy(API_TOKEN)

\* entities = ENTITIES if ENTITIES else ([ENTITY_ID] if ENTITY_ID else [])
Entities ==
    IF ENTITIES # <<>> THEN ENTITIES
    ELSE IF Truthy(ENTITY_ID) THEN <<ENTITY_ID.s[1]>>
    ELSE <<>>

----------------------------------------------------------------------------
(* The history store *)

\* a list in place of the deque: nothing is ever evicted
ListAppend(items, maxlen, x) == Append(items, x)

\* a full buffer that drops the new point instead of the oldest
DequeAppendKeepOldest(items, maxlen, x) ==
    IF Len(items) >= maxlen THEN items ELSE Append(items, x)

\* deque(maxlen=HISTORY_POINTS).append(x)
DequeAppend(items, maxlen, x) ==
    IF maxlen = 0 THEN items
    ELSE IF Len(items) = maxlen THEN Append(Tail(items), x)
    ELSE Append(items, x)

\* a snapshot that lists the newest point first
SnapshotNewestFirst(eid) ==
    IF eid \in DOMAIN _history
    THEN LET q == deques[_history[eid]]
         IN [k \in 1..Len(q) |-> q[Len(q) + 1 - k]]
    ELSE <<>>

\* list(_history.get(eid, []))
Snapshot(eid) ==
    IF eid \in DOMAIN _history THEN deques[_history[eid]] ELSE <<>>

\* a loop body that records every reading, absent or not
RecordsAlways(temp_c) == TRUE

\* a loop body that never calls _append_history
RecordsNever(temp_c) == FALSE

\* whether the loop body of api_sensors records the reading:
\* `if temp_c is not None: _append_history(eid, temp_c)`, in which
\* `if value_c is None: return` comes first
Records(temp_c) ==
    IF temp_c # None
    THEN IF temp_c = None THEN FALSE ELSE TRUE
    ELSE FALSE

\* `if entity_id not in _history:` decides whether a deque is created
AfterCheck(eid) == IF eid \notin DOMAIN _history THEN "ah_create" ELSE "ah_lookup"

----------------------------------------------------------------------------
(* Requests *)

NoErrors == [e \in {} |-> "unavailable"]

NoHistory == [e \in {} |-> <<>>]

NoPage == [temperature_c |-> None, temperature_f |-> None, last_updated |-> None]

\* api_sensors as it is entered
Entered == [pc |-> "fetch", i |-> 1, temp_c |-> None, last_updated |-> None,
            attrs |-> None, fetched |-> <<>>, asked |-> <<>>, results |-> <<>>,
            errors |-> NoErrors, dq |-> 0, ts |-> 0, j |-> 1,
            history_payload |-> NoHistory]

NoResponse == [route |-> "", status |-> 0, current |-> <<>>, fetched |-> <<>>,
               asked |-> <<>>, history |-> NoHistory, errors |-> NoErrors,
               page |-> NoPage]

\* the response Flask sends when a handler raises
Error500(route) == [NoResponse EXCEPT !.route = route, !.status = 500]

\* the requests in flight with h replaced by h2
Replace(h, h2) == (th (-) SetToBag({h})) (+) SetToBag({h2})

\* the requests in flight once h is answered
Without(h) == th (-) SetToBag({h})

\* the handler h, its locals being those of h2, raises: Flask answers 500
\* and the thread is free again
Fail500(h, h2, route) ==
    /\ th' = Without(h)
    /\ response' = [Error500(route) EXCEPT !.asked = h2.asked]

\* a request is accepted when a thread is free
Accept ==
    /\ proc = "serving"
    /\ BagCardinality(th) < Cardinality(Threads)
    /\ nreq < MaxRequests
    /\ nreq' = nreq + 1

\* the import of app.py: the configuration check
Startup ==
    /\ proc = "boot"
    /\ proc' = IF StartupOk THEN "serving" ELSE "exited"
    /\ response' = NoResponse
    /\ UNCHANGED <<config, store, th, nreq, probe, before>>

\* a record whose value_f is the Celsius value, not converted
ResultNotConverted(eid, temp_c, last_updated, attrs) ==
    [entity_id |-> eid,
     friendly_name |-> AttrGet(attrs, "friendly_name", Text(eid)),
     icon |-> AttrGet(attrs, "icon", Text("mdi:thermometer")),
     value_c |-> temp_c,
     value_f |-> temp_c,
     unit |-> AttrGet(attrs, "unit_of_measurement", Text("°C")),
     last_updated |-> last_updated]

\* the current-reading record of one entity
Result(eid, temp_c, last_updated, attrs) ==
    [entity_id |-> eid,
     friendly_name |-> AttrGet(attrs, "friendly_name", Text(eid)),
     icon |-> AttrGet(attrs, "icon", Text("mdi:thermometer")),
     value_c |-> temp_c,
     value_f |-> IF temp_c # None THEN celsius_to_fahrenheit(temp_c) ELSE None,
     unit |-> AttrGet(attrs, "unit_of_measurement", Text("°C")),
     last_updated |-> last_updated]

\* a loop body that never reports an entity
ErrorsNever(errors, eid, temp_c) == errors

\* `else: errors[eid] = "unavailable"` of `if temp_c is not None:`
Errors(errors, eid, temp_c) ==
    IF temp_c # None THEN errors ELSE (eid :> "unavailable") @@ errors

\* the comprehension over entities that builds history_payload
SnapshotPc(j) == IF j <= Len(Entities) THEN "snapshot" ELSE "respond"

\* for eid in entities
LoopPc(i) == IF i <= Len(Entities) THEN "fetch" ELSE SnapshotPc(1)

\* return jsonify({"current": results, "history": history_payload,
\* "errors": errors, ...})
Jsonify(h) ==
    [route |-> "/api/sensors", status |-> 200, current |-> h.results,
     fetched |-> h.fetched, asked |-> h.asked, history |-> h.history_payload,
     errors |-> h.errors, page |-> NoPage]

\* the handler moves on to h2, or answers when h2 has reached the return
Continue(h, h2) ==
    IF h2.pc = "respond"
    THEN /\ th' = Without(h)
         /\ response' = Jsonify(h2)
    ELSE /\ th' = Replace(h, h2)
         /\ response' = NoResponse

\* the rest of the loop body of api_sensors, after the reading h holds is
\* recorded or not: attrs.get(...), temp_f, results.append(...)
EndOfBody(h, h2) ==
    IF h2.attrs.t # "dict"
    THEN Fail500(h, h2, "/api/sensors")
    ELSE Continue(h,
            [h2 EXCEPT !.results = Append(@, Result(Entities[h2.i], h2.temp_c,
                                                     h2.last_updated, h2.attrs)),
                       !.temp_c = None, !.last_updated = None, !.attrs = None,
                       !.dq = 0, !.ts = 0,
                       !.i = @ + 1,
                       !.pc = LoopPc(h2.i + 1)])

\* GET /api/sensors reaches api_sensors
BeginApiSensors ==
    /\ Accept
    /\ IF LoopPc(1) = "respond"
       THEN /\ response' = Jsonify(Entered)
            /\ th' = th
       ELSE /\ th' = th (+) SetToBag({Entered})
            /\ response' = NoResponse
    /\ UNCHANGED <<config, proc, store, probe>>

\* temp_c, last_updated, attrs = get_sensor_reading(eid); then either
\* errors[eid] = "unavailable" and the rest of the loop body, or the call of
\* _append_history up to its test `entity_id not in _history`
ApiFetch(h) ==
    /\ h.pc = "fetch"
    /\ \E r \in Upstream : \E out \in {get_sensor_reading(Entities[h.i], r)} :
         LET eid == Entities[h.i]
             h2 == [h EXCEPT !.temp_c = out.temperature,
                             !.last_updated = out.last_updated,
                             !.attrs = out.attributes,
                             !.fetched = Append(@, out.temperature),
                             !.asked = @ \o Requests(eid)]
         IN IF out.exc # "None"
            THEN Fail500(h, h2, "/api/sensors")
            ELSE IF Records(out.temperature)
            THEN /\ th' = Replace(h, [h2 EXCEPT !.pc = AfterCheck(eid)])
                 /\ response' = NoResponse
            ELSE EndOfBody(h, [h2 EXCEPT !.errors = Errors(@, eid, out.temperature)])
    /\ UNCHANGED <<config, proc, store, nreq, probe, before>>

\* _append_history: _history[entity_id] = deque(maxlen=HISTORY_POINTS)
AppendHistoryCreate(h) ==
    /\ h.pc = "ah_create"
    /\ deques' = Append(deques, <<>>)
    /\ _history' = (Entities[h.i] :> Len(deques) + 1) @@ _history
    /\ th' = Replace(h, [h EXCEPT !.pc = "ah_lookup"])
    /\ response' = NoResponse
    /\ UNCHANGED <<config, proc, now, recorded, nreq, probe, before>>

\* _append_history: _history[entity_id] is looked up, then int(time())
AppendHistoryLookup(h) ==
    /\ h.pc = "ah_lookup"
    /\ \E ts \in now..MaxTime :
         /\ now' = ts
         /\ th' = Replace(h, [h EXCEPT !.dq = _history[Entities[h.i]],
                                       !.ts = ts,
                                       !.pc = "ah_append"])
    /\ response' = NoResponse
    /\ UNCHANGED <<config, proc, _history, deques, recorded, nreq, probe, before>>

\* _append_history: .append((int(time()), float(value_c))), and the rest
\* of the loop body
AppendHistoryAppend(h) ==
    /\ h.pc = "ah_append"
    /\ LET f == PyFloat(h.temp_c)
           point == <<h.ts, f.val>>
           eid == Entities[h.i]
       IN IF f.exc # "None"
          THEN /\ Fail500(h, h, "/api/sensors")
               /\ UNCHANGED <<deques, recorded>>
          ELSE /\ deques' = [deques EXCEPT ![h.dq] =
                                DequeAppend(@, HISTORY_POINTS, point)]
               /\ recorded' = [recorded EXCEPT ![eid] = Append(@, point)]
               /\ EndOfBody(h, h)
    /\ UNCHANGED <<config, proc, _history, now, nreq, probe, before>>

\* api_sensors: history_payload[eid] = list(_history.get(eid, [])), and the
\* return after the last entity
ApiSnapshot(h) ==
    /\ h.pc = "snapshot"
    /\ LET eid == Entities[h.j]
       IN Continue(h, [h EXCEPT !.history_payload = (eid :> Snapshot(eid)) @@ @,
                                !.j = @ + 1,
                                !.pc = SnapshotPc(h.j + 1)])
    /\ UNCHANGED <<config, proc, store, nreq, probe, before>>

\* the values index hands to the template
Page(temperature_c, last_updated) ==
    IF temperature_c = None
    THEN [temperature_c |-> Text("N/A"), temperature_f |-> Text("N/A"),
          last_updated |-> Text("N/A")]
    ELSE [temperature_c |-> temperature_c,
          temperature_f |-> celsius_to_fahrenheit(temperature_c),
          \* {{ last_updated or 'N/A' }}
          last_updated |-> IF Truthy(last_updated) THEN last_updated
                           ELSE Text("N/A")]

\* an index that gives the entity it shows a fresh buffer
IndexRecording ==
    /\ Accept
    /\ \E r \in Upstream : \E out \in {get_backyard_temperature(r)} :
            response' =
              IF out.exc # "None"
              THEN [Error500("/") EXCEPT !.asked = Requests(Formatted(ENTITY_ID))]
              ELSE [NoResponse EXCEPT !.route = "/", !.status = 200,
                                      !.fetched = <<out.temperature>>,
                                      !.asked = Requests(Formatted(ENTITY_ID)),
                                      !.page = Page(out.temperature, out.last_updated)]
    /\ deques' = Append(deques, <<>>)
    /\ _history' = (Formatted(ENTITY_ID) :> Len(deques) + 1) @@ _history
    /\ UNCHANGED <<config, proc, now, recorded, th, probe, before>>

\* GET /: index, which reads no shared state
Index ==
    /\ Accept
    /\ \E r \in Upstream : \E out \in {get_backyard_temperature(r)} :
            response' =
              IF out.exc # "None"
              THEN [Error500("/") EXCEPT !.asked = Requests(Formatted(ENTITY_ID))]
              ELSE [NoResponse EXCEPT !.route = "/", !.status = 200,
                                      !.fetched = <<out.temperature>>,
                                      !.asked = Requests(Formatted(ENTITY_ID)),
                                      !.page = Page(out.temperature, out.last_updated)]
    /\ UNCHANGED <<config, proc, store, th, probe, before>>

\* GET /dashboard: the static page
Dashboard ==
    /\ Accept
    /\ response' = [NoResponse EXCEPT !.route = "/dashboard", !.status = 200]
    /\ UNCHANGED <<config, proc, store, th, probe, before>>

----------------------------------------------------------------------------
(* The server *)

NoProbe == [fn |-> "", r |-> Raises("Timeout"), out |-> Absent]

NoBefore == [e \in {} |-> <<>>]

\* the buffer of every entity
Buffers == [e \in EntityIds |-> Snapshot(e)]

InitConfig ==
    /\ USE_DUMMY_DATA \in BOOLEAN
    /\ HOME_ASSISTANT_URL = Text("http://example.com/")
    /\ ENTITY_ID \in {None, Text("sensor.one")}
    /\ API_TOKEN = Text("token")
    /\ ENTITIES \in {<<>>, <<"sensor.one", "sensor.two">>}
    /\ HISTORY_POINTS \in 0..MaxHistoryPoints
    /\ ENTITIES = <<>> \/ ENTITY_ID = None

InitStore ==
    /\ _history = [e \in {} |-> 0]
    /\ deques = <<>>
    /\ now = 0
    /\ recorded = [e \in EntityIds |-> <<>>]
    /\ before = NoBefore
    /\ th = EmptyBag
    /\ response = NoResponse
    /\ nreq = 0

Init ==
    /\ InitConfig
    /\ InitStore
    /\ proc = "boot"
    /\ probe = NoProbe

Next ==
    \/ Startup
    \/ BeginApiSensors /\ UNCHANGED before
    \/ Index
    \/ Dashboard
    \/ \E h \in BagToSet(th) : ApiFetch(h)
    \/ \E h \in BagToSet(th) : AppendHistoryCreate(h)
    \/ \E h \in BagToSet(th) : AppendHistoryLookup(h)
    \/ \E h \in BagToSet(th) : AppendHistoryAppend(h)
    \/ \E h \in BagToSet(th) : ApiSnapshot(h)

\* the threaded server: requests are handled concurrently
Spec == Init /\ [][Next]_vars

\* no request is being handled
AllIdle == th = EmptyBag

\* the single-threaded server is given the entity list with a repeated
\* entity too
InitSerial ==
    /\ USE_DUMMY_DATA \in BOOLEAN
    /\ HOME_ASSISTANT_URL = Text("http://example.com/")
    /\ ENTITY_ID \in {None, Text("sensor.one")}
    /\ API_TOKEN = Text("token")
    /\ ENTITIES \in {<<>>, <<"sensor.one", "sensor.two">>,
                     <<"sensor.one", "sensor.one">>}
    /\ HISTORY_POINTS \in 0..MaxHistoryPoints
    /\ ENTITIES = <<>> \/ ENTITY_ID = None
    /\ InitStore
    /\ proc = "boot"
    /\ probe = NoProbe

NextSerial ==
    \/ Startup
    \/ AllIdle /\ BeginApiSensors /\ before' = Buffers
    \/ AllIdle /\ Index
    \/ AllIdle /\ Dashboard
    \/ \E h \in BagToSet(th) : ApiFetch(h)
    \/ \E h \in BagToSet(th) : AppendHistoryCreate(h)
    \/ \E h \in BagToSet(th) : AppendHistoryLookup(h)
    \/ \E h \in BagToSet(th) : AppendHistoryAppend(h)
    \/ \E h \in BagToSet(th) : ApiSnapshot(h)

\* a single-threaded server: one request at a time
SpecSerial == InitSerial /\ [][NextSerial]_vars

----------------------------------------------------------------------------
(* Startup alone: every configuration the environment can give *)

\* os.getenv of a variable that is unset, set to "", or set
Getenv(value) == {None, Str(<<>>), Text(value)}

InitStartup ==
    /\ USE_DUMMY_DATA \in BOOLEAN
    /\ HOME_ASSISTANT_URL \in Getenv("http://example.com/")
    /\ ENTITY_ID \in Getenv("sensor.one")
    /\ API_TOKEN \in Getenv("token")
    /\ ENTITIES \in {<<>>, <<"sensor.one", "sensor.two">>}
    /\ HISTORY_POINTS = MaxHistoryPoints
    /\ InitStore
    /\ proc = "boot"
    /\ probe = NoProbe

NextStartup ==
    \/ Startup
    \/ Dashboard

SpecStartup == InitStartup /\ [][NextStartup]_vars

----------------------------------------------------------------------------
(* The fetchers alone: one call on one upstream response *)

\* a key the JSON object does not have
Missing == [t |-> "missing", n |-> 0, s |-> <<>>, d |-> EmptyDict]

\* the JSON object with the given values, a Missing one leaving its key out
Object(state, last_updated, attributes) ==
    LET v == [k \in {"state", "last_updated", "attributes"} |->
                CASE k = "state" -> state
                  [] k = "last_updated" -> last_updated
                  [] OTHER -> attributes]
    IN [k \in {x \in DOMAIN v : v[x] # Missing} |-> v[k]]

\* states that denote a number, with the number in thousandths
NumericStates ==
    { <<Str(<<"2", "1", ".", "5">>), 21500>>,
      <<Str(<<"-", "5">>), 0 - 5000>>,
      <<Str(<<" ", "3", "0", ".", "2", "5", " ">>), 30250>>,
      <<Str(<<"0">>), 0>>,
      <<Float(21500), 21500>> }

\* states that denote no number
NonNumericStates ==
    { Missing, None, Str(<<>>),
      Str(<<"u", "n", "a", "v", "a", "i", "l", "a", "b", "l", "e">>),
      Str(<<"u", "n", "k", "n", "o", "w", "n">>),
      Str(<<"e", "r", "r", "o", "r">>),
      Str(<<"2", "1", ",", "5">>),
      Str(<<"n", "a", "n">>),
      Bool(TRUE),
      List(0) }

ProbeStates == {x[1] : x \in NumericStates} \cup NonNumericStates

ProbeLastUpdated == {Missing, None, Text("2024-01-01T00:00:00Z")}

ProbeAttributes ==
    {Missing, None, Dict(EmptyDict),
     Dict([a \in {"friendly_name"} |-> <<"Name">>]), Text("none")}

ProbeStatus == {200, 201, 404, 500}

ProbeResponses ==
    {Raises(e) : e \in RequestExceptions}
    \cup {NotJson(c) : c \in ProbeStatus}
    \cup {JsonValue(c, v) : c \in ProbeStatus, v \in {None, List(0), Text("OK")}}
    \cup {JsonObject(c, Object(st, lu, at)) :
            c \in ProbeStatus, st \in ProbeStates, lu \in ProbeLastUpdated,
            at \in ProbeAttributes}

InitFetcher ==
    /\ USE_DUMMY_DATA \in BOOLEAN
    /\ HOME_ASSISTANT_URL = Text("http://example.com/")
    /\ ENTITY_ID = Text("sensor.one")
    /\ API_TOKEN = Text("token")
    /\ ENTITIES = <<>>
    /\ HISTORY_POINTS = MaxHistoryPoints
    /\ InitStore
    /\ proc = "serving"
    /\ probe \in {[fn |-> "", r |-> r, out |-> Absent] : r \in ProbeResponses}

CallGetSensorReading ==
    /\ probe.fn = ""
    /\ probe' = [probe EXCEPT !.fn = "get_sensor_reading",
                              !.out = get_sensor_reading(ENTITY_ID.s[1], probe.r)]
    /\ UNCHANGED <<config, proc, store, th, response, nreq, before>>

CallGetBackyardTemperature ==
    /\ probe.fn = ""
    /\ probe' = [probe EXCEPT !.fn = "get_backyard_temperature",
                              !.out = get_backyard_temperature(probe.r)]
    /\ UNCHANGED <<config, proc, store, th, response, nreq, before>>

NextFetcher ==
    \/ CallGetSensorReading
    \/ CallGetBackyardTemperature

SpecFetcher == InitFetcher /\ [][NextFetcher]_vars

----------------------------------------------------------------------------
(* The converter alone: one call on one temperature *)

\* the temperatures the tests convert, in thousandths
TestedMilli == {0, 100000, 0 - 40000, 36600, 0 - 273150, 36666}

InitConverter ==
    /\ USE_DUMMY_DATA = FALSE
    /\ HOME_ASSISTANT_URL = Text("http://example.com/")
    /\ ENTITY_ID = Text("sensor.one")
    /\ API_TOKEN = Text("token")
    /\ ENTITIES = <<>>
    /\ HISTORY_POINTS = MaxHistoryPoints
    /\ InitStore
    /\ proc = "serving"
    /\ probe \in {[fn |-> "", c |-> Float(n), out |-> None] :
                    n \in ((0 - MaxMilli)..MaxMilli) \cup TestedMilli}

CallCelsiusToFahrenheit ==
    /\ probe.fn = ""
    /\ probe' = [probe EXCEPT !.fn = "celsius_to_fahrenheit",
                              !.out = celsius_to_fahrenheit(probe.c)]
    /\ UNCHANGED <<config, proc, store, th, response, nreq, before>>

NextConverter ==
    \/ CallCelsiusToFahrenheit

SpecConverter == InitConverter /\ [][NextConverter]_vars

----------------------------------------------------------------------------
(* Properties *)

Min(a, b) == IF a < b THEN a ELSE b

Range(q) == {q[k] : k \in 1..Len(q)}

\* x / 100 rounded to the nearest integer, ties to even
RoundHundred(x) ==
    LET q == x \div 100
        r == x % 100
    IN IF r < 50 THEN q
       ELSE IF r > 50 THEN q + 1
       ELSE IF q % 2 = 0 THEN q ELSE q + 1

\* the last n elements of q
LastN(q, n) == SubSeq(q, Len(q) - Min(Len(q), n) + 1, Len(q))

\* the points the history store holds for an entity, oldest first
Buffer(e) == IF e \in DOMAIN _history THEN deques[_history[e]] ELSE <<>>

\* the handlers that are running
Running == BagToSet(th)

\* the last step answered a GET /api/sensors normally
ApiResponse == response.route = "/api/sensors" /\ response.status = 200

\* C1: no history buffer (no deque the store ever created) holds more than
\* HISTORY_POINTS points, whatever requests were served and however their
\* fetches went.
C1_BufferBounded ==
    \A k \in 1..Len(deques) : Len(deques[k]) <= HISTORY_POINTS

C1_Witness ==
    \E e \in DOMAIN _history :
        /\ HISTORY_POINTS = MaxHistoryPoints
        /\ Len(Buffer(e)) = HISTORY_POINTS
        /\ Len(recorded[e]) > HISTORY_POINTS

\* C2: when recordings happen one after the other, every entity's buffer is
\* exactly the last min(k, HISTORY_POINTS) of the k points recorded for it,
\* in the order they were recorded, whatever was recorded for other
\* entities in between.
C2_LastPointsInOrder ==
    \A e \in EntityIds : Buffer(e) = LastN(recorded[e], HISTORY_POINTS)

C2_Witness ==
    /\ HISTORY_POINTS = 2
    /\ Len(recorded["sensor.one"]) = 3
    /\ recorded["sensor.two"] # <<>>
    /\ Buffer("sensor.one") = SubSeq(recorded["sensor.one"], 2, 3)
    /\ Buffer("sensor.one")[1] # Buffer("sensor.one")[2]

\* C3: concurrent writers lose no point: once no request is running, every
\* entity's buffer holds as many points as were recorded for it, up to
\* HISTORY_POINTS.
C3_NoPointLost ==
    AllIdle =>
        \A e \in EntityIds :
            Len(Buffer(e)) = Min(Len(recorded[e]), HISTORY_POINTS)

\* handler h takes this step
Moved(h) == CopiesIn(h, th') < CopiesIn(h, th)

\* h is at its fetch and this step fetches an absent value
FetchesAbsent(h) ==
    /\ h.pc = "fetch"
    /\ \E h2 \in BagToSet(th') :
         /\ CopiesIn(h2, th') > CopiesIn(h2, th)
         /\ Len(h2.fetched) = Len(h.fetched) + 1
         /\ h2.fetched[Len(h2.fetched)] = None

\* h is inside _append_history with an absent value
RecordsAbsent(h) ==
    h.pc \in {"ah_create", "ah_lookup", "ah_append"} /\ h.temp_c = None

\* C4: a step that handles an absent reading (the fetch that yields it and
\* whatever the loop body then does with it) leaves the history store as it
\* was: no buffer changes and no buffer is created.
C4_AbsentIsNoOp ==
    [][\A h \in BagToSet(th) :
          (Moved(h) /\ (FetchesAbsent(h) \/ RecordsAbsent(h)))
              => UNCHANGED <<_history, deques, recorded>>]_vars

C4_Witness ==
    \E h \in Running :
        /\ h.fetched # <<>>
        /\ h.fetched[Len(h.fetched)] = None
        /\ Entities[Len(h.fetched)] \in DOMAIN h.errors
        /\ Entities[Len(h.fetched)] \notin DOMAIN _history
        /\ DOMAIN _history # {}

\* a fetcher was called outside dummy mode, so the upstream was asked
Fetched == probe.fn # "" /\ ~USE_DUMMY_DATA

\* C5: when the request raises a transport exception, both fetchers return
\* an absent value, an absent timestamp and empty attributes, and raise
\* nothing.
C5_TransportErrorAbsent ==
    (Fetched /\ probe.r.exc \in RequestExceptions) => probe.out = Absent

C5_Witness ==
    /\ Fetched
    /\ probe.fn = "get_backyard_temperature"
    /\ probe.r.exc = "SSLError"
    /\ probe.out.exc = "None"
    /\ probe.out.temperature = None

\* C6: for a response whose status is not 200, and for a 200 response whose
\* body is not JSON, both fetchers return an absent value, an absent
\* last_updated and empty attributes, whatever the body holds.
C6_BadResponseAbsent ==
    (/\ Fetched
     /\ probe.r.exc = "None"
     /\ probe.r.status_code # 200 \/ probe.r.json = "ValueError")
        => probe.out = Absent

C6_Witness ==
    /\ Fetched
    /\ probe.fn = "get_sensor_reading"
    /\ probe.r.status_code = 201
    /\ probe.r.json = "object"
    /\ DOMAIN probe.r.obj = {"state", "last_updated", "attributes"}
    /\ probe.r.obj["state"] = Float(21500)
    /\ probe.r.obj["last_updated"] # None
    /\ probe.out = Absent

\* C7: for a 200 response with a JSON object, both fetchers raise nothing
\* and pass last_updated through; the value is absent when the state is
\* missing, null, empty or no number, and the number it denotes otherwise.
C7_StateParsed ==
    (/\ Fetched
     /\ probe.r.exc = "None"
     /\ probe.r.status_code = 200
     /\ probe.r.json = "object")
        => LET state == Get(probe.r.obj, "state", Missing)
           IN /\ probe.out.exc = "None"
              /\ probe.out.last_updated = Get(probe.r.obj, "last_updated", None)
              /\ state \in NonNumericStates => probe.out.temperature = None
              /\ \A x \in NumericStates :
                    x[1] = state => probe.out.temperature = Float(x[2])

\* C8: every GET / and GET /api/sensors is answered 200, whatever the
\* upstream does; an absent value is "N/A" on the page, and null with an
\* errors entry in the JSON.
C8_NeverAnErrorPage ==
    response.route \in {"/", "/api/sensors"} =>
        /\ response.status = 200
        /\ (response.route = "/" /\ response.fetched = <<None>>)
              => response.page.temperature_c = Text("N/A")
        /\ response.route = "/api/sensors" =>
              \A k \in 1..Len(response.current) :
                 response.fetched[k] = None =>
                    /\ response.current[k].value_c = None
                    /\ Entities[k] \in DOMAIN response.errors

\* C9: in a /api/sensors response, errors maps exactly the entities whose
\* fetch in this request gave an absent value, each to "unavailable", and
\* each current record carries the value fetched for its entity.
C9_ErrorsIffAbsent ==
    ApiResponse =>
        LET absent == {Entities[k] : k \in {x \in 1..Len(Entities) :
                                                response.fetched[x] = None}}
        IN /\ Len(response.fetched) = Len(Entities)
           /\ Len(response.current) = Len(Entities)
           /\ DOMAIN response.errors = absent
           /\ \A e \in absent : response.errors[e] = "unavailable"
           /\ \A k \in 1..Len(Entities) :
                 /\ response.current[k].entity_id = Entities[k]
                 /\ response.current[k].value_c = response.fetched[k]

C9_Witness ==
    /\ ApiResponse
    /\ DOMAIN response.errors = {"sensor.two"}
    /\ response.current[1].value_c = Float(21500)
    /\ response.current[2].value_c = None

\* C10: a /api/sensors response has a history entry for every configured
\* entity: empty when no point was ever recorded for it, and (for the entity
\* snapshotted last, in the step that answers) the buffered points oldest
\* first. Reading a snapshot creates no buffer: an entity has a buffer only
\* if a point was recorded for it or is being recorded.
C10_HistoryOfEveryEntity ==
    /\ ApiResponse =>
          /\ DOMAIN response.history = Range(Entities)
          /\ \A e \in Range(Entities) :
                recorded[e] = <<>> => response.history[e] = <<>>
          /\ Entities # <<>> =>
                response.history[Entities[Len(Entities)]]
                    = Buffer(Entities[Len(Entities)])
    /\ \A e \in DOMAIN _history :
          \/ recorded[e] # <<>>
          \/ \E h \in Running :
                h.pc \in {"ah_lookup", "ah_append"} /\ Entities[h.i] = e

C10_Witness ==
    /\ ApiResponse
    /\ DOMAIN response.history = {"sensor.one", "sensor.two"}
    /\ response.history["sensor.one"] = <<>>
    /\ "sensor.one" \notin DOMAIN _history
    /\ Len(response.history["sensor.two"]) = 2
    /\ response.history["sensor.two"][1] # response.history["sensor.two"][2]

\* the entity ids of the current-reading records of the response, in order
CurrentIds == [k \in 1..Len(response.current) |-> response.current[k].entity_id]

\* C11: every GET /api/sensors that has ended has asked the upstream exactly
\* once per configured entity, in the configured order (a fetch that failed
\* is not repeated; dummy mode asks nothing), and its current list has one
\* record per configured entity in that order; ENTITY_ID alone counts as the
\* one-element list.
C11_OneFetchPerEntity ==
    response.route = "/api/sensors" =>
        /\ ~USE_DUMMY_DATA => response.asked = Entities
        /\ CurrentIds = Entities
        /\ (ENTITIES = <<>> /\ ENTITY_ID # None) => CurrentIds = <<ENTITY_ID.s[1]>>

\* the same for the requests that are answered normally
C11_WhenAnswered ==
    ApiResponse =>
        /\ response.asked = (IF USE_DUMMY_DATA THEN <<>> ELSE Entities)
        /\ Len(response.fetched) = Len(Entities)
        /\ CurrentIds = Entities
        /\ (ENTITIES = <<>> /\ ENTITY_ID # None) => CurrentIds = <<ENTITY_ID.s[1]>>
\* a configuration variable is set
IsSet(v) == v # None /\ v # Str(<<>>)

\* a required variable is missing
MissingConfig ==
    \/ ~IsSet(HOME_ASSISTANT_URL)
    \/ ~IsSet(API_TOKEN)
    \/ ENTITIES = <<>> /\ ~IsSet(ENTITY_ID)

\* C12: outside dummy mode the process exits at startup, and never serves,
\* when the base URL or the token is missing or when there is neither an
\* entity list nor an entity id; so whenever it serves outside dummy mode
\* the URL, the token and at least one entity are set. It exits for no
\* other reason, and in dummy mode it never exits.
C12_MissingConfigIsFatal ==
    /\ (~USE_DUMMY_DATA /\ MissingConfig) => proc # "serving"
    /\ (~USE_DUMMY_DATA /\ proc = "serving") =>
          /\ IsSet(HOME_ASSISTANT_URL)
          /\ IsSet(API_TOKEN)
          /\ Entities # <<>>
    /\ proc = "exited" => (~USE_DUMMY_DATA /\ MissingConfig)
    /\ USE_DUMMY_DATA => proc # "exited"
    /\ response.route # "" => proc = "serving"

C12_Witness ==
    /\ proc = "exited"
    /\ ~USE_DUMMY_DATA
    /\ ENTITIES # <<>>
    /\ IsSet(HOME_ASSISTANT_URL)
    /\ API_TOKEN = Str(<<>>)

\* in dummy mode nothing is asked of the upstream, every fetch gives 25 and
\* "N/A", and every /api/sensors request is answered with one record of
\* value 25 per configured entity and no errors
DummyModeIsFixed ==
    /\ response.asked = <<>>
    /\ \A h \in Running :
          /\ h.asked = <<>>
          /\ \A k \in 1..Len(h.fetched) : h.fetched[k] = Float(25000)
          /\ h.pc \in {"ah_create", "ah_lookup", "ah_append"} =>
                h.last_updated = Text("N/A")
    /\ response.route = "/api/sensors" =>
          /\ response.status = 200
          /\ CurrentIds = Entities
          /\ \A k \in 1..Len(response.current) :
                /\ response.current[k].value_c = Float(25000)
                /\ response.current[k].last_updated = Text("N/A")
          /\ response.errors = NoErrors
    /\ response.route = "/" => response.fetched = <<Float(25000)>>

\* the response to the first /api/sensors call the process ever got
FirstCall == ApiResponse /\ nreq = 1

\* C13 as stated: in dummy mode no upstream request is issued, every fetch
\* returns 25 and "N/A", every /api/sensors response lists exactly the
\* configured entities with value 25 and no errors, and after one call the
\* history of every configured entity is non-empty.
C13_DummyMode ==
    USE_DUMMY_DATA =>
        /\ DummyModeIsFixed
        /\ FirstCall => \A e \in Range(Entities) : response.history[e] # <<>>

\* C13 amended: the same, the history being non-empty after one call when
\* the capacity HISTORY_POINTS is at least 1 (with capacity 0 it is empty).
C13_DummyModeWithCapacity ==
    USE_DUMMY_DATA =>
        /\ DummyModeIsFixed
        /\ FirstCall =>
              \A e \in Range(Entities) :
                 /\ HISTORY_POINTS >= 1 =>
                       /\ response.history[e] # <<>>
                       /\ response.history[e][Len(response.history[e])][2]
                             = Float(25000)
                 /\ HISTORY_POINTS = 0 => response.history[e] = <<>>

C13_Witness ==
    /\ USE_DUMMY_DATA
    /\ FirstCall
    /\ HISTORY_POINTS >= 1
    /\ CurrentIds = <<"sensor.one", "sensor.two">>
    /\ DOMAIN response.history = {"sensor.one", "sensor.two"}
    /\ response.history["sensor.one"] # <<>>
    /\ response.history["sensor.two"] # <<>>
    /\ response.asked = <<>>

\* C14: in every record of a /api/sensors response, value_f is absent
\* exactly when value_c is absent, and otherwise it is
\* celsius_to_fahrenheit of the value fetched for that entity in this
\* request (70.7 for 21.5, 77.0 for the dummy 25).
C14_FahrenheitOfFetched ==
    ApiResponse =>
        \A k \in 1..Len(response.current) :
           LET r == response.current[k]
           IN /\ (r.value_f = None) <=> (r.value_c = None)
              /\ r.value_c # None =>
                    /\ r.value_c = response.fetched[k]
                    /\ r.value_f = celsius_to_fahrenheit(response.fetched[k])
              /\ r.value_c = Float(21500) => r.value_f = Float(70700)
              /\ r.value_c = Float(25000) => r.value_f = Float(77000)

C14_Witness ==
    /\ ApiResponse
    /\ Len(response.current) = 2
    /\ response.current[1].value_c = Float(21500)
    /\ response.current[1].value_f = Float(70700)
    /\ response.current[2].value_c = None
    /\ response.current[2].value_f = None

\* x / 100 rounded to the nearest integer, ties away from zero
RoundHundredAway(x) ==
    IF x >= 0 THEN (x + 50) \div 100 ELSE 0 - ((50 - x) \div 100)

\* celsius_to_fahrenheit was called on probe.c
Converted == probe.fn = "celsius_to_fahrenheit"

\* c * 9/5 + 32 in ten-thousandths, for c in thousandths
TimesNineFifthsPlus32(c) == c * 18 + 320000

\* the values the claim names
NamedConversions ==
    /\ probe.c = Float(0) => probe.out = Float(32000)
    /\ probe.c = Float(100000) => probe.out = Float(212000)
    /\ probe.c = Float(0 - 40000) => probe.out = Float(0 - 40000)
    /\ probe.c = Float(36600) => probe.out = Float(97880)
    /\ probe.c = Float(0 - 273150) => probe.out = Float(0 - 459670)
    /\ probe.c = Float(36666) => probe.out = Float(98000)

\* C15: for every input with at most three decimal digits,
\* to_fahrenheit(c) is c * 9/5 + 32 rounded to two decimal places (halves
\* to even, or halves away from zero); 0, 100, -40, 36.6, -273.15 and
\* 36.666 give 32, 212, -40, 97.88, -459.67 and 98.0.
C15_ConvertsAndRounds ==
    Converted =>
        /\ \/ probe.out = Float(10 * RoundHundred(TimesNineFifthsPlus32(probe.c.n)))
           \/ probe.out = Float(10 * RoundHundredAway(TimesNineFifthsPlus32(probe.c.n)))
        /\ NamedConversions

\* what the code does: the result is what the arithmetic on doubles gives
\* for every input; an input whose c * 9/5 + 32 is no exact half of a
\* hundredth is rounded to the nearest hundredth, an exact half goes to
\* one of its two neighbours, and the named values are as the claim says
C15_NearestHundredth ==
    Converted =>
        LET x == TimesNineFifthsPlus32(probe.c.n)
        IN /\ probe.out = Float(Fahrenheit(probe.c.n))
           /\ x % 100 # 50 => probe.out = Float(10 * RoundHundred(x))
           /\ x % 100 = 50 =>
                 probe.out \in {Float(10 * (x \div 100)), Float(10 * (x \div 100 + 1))}
           /\ NamedConversions

\* the history and the current readings of the response agree: a present
\* value_c is the value of the last point of its entity's history, and the
\* history of an entity listed in errors is its buffer as the request
\* found it
HistoryAgreesWithCurrent ==
    \A k \in 1..Len(response.current) :
       LET r == response.current[k]
           e == r.entity_id
           points == response.history[e]
       IN /\ r.value_c # None =>
                /\ points # <<>>
                /\ points[Len(points)][2] = r.value_c
          /\ e \in DOMAIN response.errors => points = before[e]

\* C16 as stated: in every /api/sensors response produced while no other
\* request runs, with capacity at least 1, the history and the current
\* readings agree.
C16_HistoryAgrees ==
    (ApiResponse /\ HISTORY_POINTS >= 1) => HistoryAgreesWithCurrent

\* C16 amended: the same when no entity is configured twice.
C16_HistoryAgreesForDistinctEntities ==
    (/\ ApiResponse
     /\ HISTORY_POINTS >= 1
     /\ Cardinality(Range(Entities)) = Len(Entities))
        => HistoryAgreesWithCurrent

C16_Witness ==
    /\ ApiResponse
    /\ HISTORY_POINTS >= 1
    /\ Entities = <<"sensor.one", "sensor.two">>
    /\ DOMAIN response.errors = {"sensor.one"}
    /\ before["sensor.one"] # <<>>
    /\ response.history["sensor.one"] = before["sensor.one"]
    /\ response.current[2].value_c = Float(21500)
    /\ response.history["sensor.two"] # before["sensor.two"]

\* C17: a step that answers GET / (with a page or with an error, the fetch
\* having given a value or not, in dummy mode or not) or GET /dashboard
\* leaves every buffer and the set of buffered entities as they were, and
\* GET /dashboard asks nothing of the upstream.
C17_OnlyApiSensorsWrites ==
    [][response'.route \in {"/", "/dashboard"} =>
          /\ UNCHANGED <<_history, deques>>
          /\ response'.route = "/dashboard" =>
                response'.asked = <<>> /\ response'.fetched = <<>>]_vars

C17_Witness ==
    /\ response.route = "/"
    /\ response.status = 200
    /\ response.fetched = <<Float(21500)>>
    /\ response.asked = <<"sensor.one">>
    /\ Buffer("sensor.one") # <<>>
    /\ Running # {}

=============================================================================
